---- MODULE Spec2Model ----
(***************************************************************************)
(* A model of mapzen/api.py: the MapzenAPI client.  It builds endpoint     *)
(* URLs and parameter sets, issues one HTTP request per operation and      *)
(* turns the response into a result or an exception.                       *)
(*                                                                         *)
(* Text is a sequence of fragments.  Text the code inspects character by   *)
(* character (parameter names, parameter values, JSON) is written one      *)
(* character per fragment; a fragment of several characters (a host, an    *)
(* endpoint name, a word, a number literal) stands for characters that no  *)
(* operation of the code treats specially.                                 *)
(***************************************************************************)
EXTENDS Integers, Sequences, FiniteSets, TLC

\* ------------------------------------------------------------------ bounds
\* The largest number of keyword options a caller passes in one call.
MaxOptions == 1
\* The largest number of elements of a sequence-valued option.
MaxSeqLen == 2

\* ------------------------------------------------------------- Python values
\* A Python value: kind is its type, val its text (str, unicode, float), elts
\* the elements of a list of str.
Str_(s) == [kind |-> "str", val |-> s, elts |-> <<>>]
Unicode_(s) == [kind |-> "unicode", val |-> s, elts |-> <<>>]
Num_(lit) == [kind |-> "num", val |-> <<lit>>, elts |-> <<>>]
List_(es) == [kind |-> "list", val |-> <<>>, elts |-> es]
Tuple_(es) == [kind |-> "tuple", val |-> <<>>, elts |-> es]
None == [kind |-> "none", val |-> <<>>, elts |-> <<>>]

\* Characters outside ASCII, and the bytes of their UTF-8 encoding.
NonAscii == {"e'"}
Utf8Bytes(c) == IF c = "e'" THEN <<"<C3>", "<A9>">> ELSE <<c>>

RECURSIVE Flatten(_)
\* The concatenation of a sequence of texts.
Flatten(ss) == IF ss = <<>> THEN <<>> ELSE Head(ss) \o Flatten(Tail(ss))

\* Python's truth value of v: `if reference` in check_not_empty.
Truthy(v) ==
    CASE v.kind = "none" -> FALSE
      [] v.kind \in {"str", "unicode"} -> v.val # <<>>
      [] v.kind = "num" -> v.val \notin {<<"0">>, <<"0.0">>}
      [] OTHER -> v.elts # <<>>

\* v.encode('utf-8') of a unicode value: a str of the encoded bytes.
EncodeUtf8(v) == Str_(Flatten([i \in 1..Len(v.val) |-> Utf8Bytes(v.val[i])]))

\* str(v).  ok is FALSE where Python 2 raises UnicodeEncodeError: a unicode
\* value with a character outside ASCII.  A list prints as ['a', 'b'].
PyStr(v) ==
    CASE v.kind = "none" -> [ok |-> TRUE, s |-> <<"None">>]
      [] v.kind \in {"str", "num"} -> [ok |-> TRUE, s |-> v.val]
      [] v.kind = "unicode" ->
           [ok |-> \A i \in 1..Len(v.val) : v.val[i] \notin NonAscii, s |-> v.val]
      [] OTHER ->
           LET open == IF v.kind = "list" THEN "[" ELSE "("
               close == IF v.kind = "list" THEN "]" ELSE ")"
               item(i) == (IF i = 1 THEN <<>> ELSE <<",", " ">>)
                          \o <<"'">> \o v.elts[i] \o <<"'">>
           IN  [ok |-> TRUE,
                s |-> <<open>> \o Flatten([i \in 1..Len(v.elts) |-> item(i)])
                      \o (IF v.kind = "tuple" /\ Len(v.elts) = 1 THEN <<",">> ELSE <<>>)
                      \o <<close>>]

\* ------------------------------------------------------------------ quoting
\* urllib.quote: every character but letters, digits and _.-/ becomes %XX.
PercentCode ==
    [c \in {" ", "&", "=", "?", "{", "}", "[", "]", "\"", ":", ",", "'", "(", ")",
            "<", ">", "<C3>", "<A9>"} |->
        CASE c = " " -> "%20" [] c = "&" -> "%26" [] c = "=" -> "%3D"
          [] c = "?" -> "%3F" [] c = "{" -> "%7B" [] c = "}" -> "%7D"
          [] c = "[" -> "%5B" [] c = "]" -> "%5D" [] c = "\"" -> "%22"
          [] c = ":" -> "%3A" [] c = "," -> "%2C" [] c = "'" -> "%27"
          [] c = "(" -> "%28" [] c = ")" -> "%29" [] c = "<" -> "%3C"
          [] c = ">" -> "%3E" [] c = "<C3>" -> "%C3" [] OTHER -> "%A9"]

quote(s) ==
    [i \in 1..Len(s) |-> IF s[i] \in DOMAIN PercentCode THEN PercentCode[s[i]] ELSE s[i]]

\* ---------------------------------------------------------------- urlencode
\* urlencode(query, doseq, quote_via=quote) of the items <<k, v>> of a
\* mapping, in the order `query` lists them.
PairText(k, s) == quote(k) \o <<"=">> \o quote(s)

\* The key=value texts one item contributes.
ItemPairs(k, v, doseq) ==
    IF doseq /\ v.kind \in {"list", "tuple"}
    THEN [i \in 1..Len(v.elts) |-> PairText(k, v.elts[i])]
    ELSE IF doseq /\ v.kind = "unicode"
    THEN <<PairText(k, [i \in 1..Len(v.val) |->
                           IF v.val[i] \in NonAscii THEN "?" ELSE v.val[i]])>>
    ELSE <<PairText(k, PyStr(v).s)>>

RECURSIVE JoinAmp(_)
\* '&'.join(l)
JoinAmp(l) ==
    IF l = <<>> THEN <<>>
    ELSE IF Len(l) = 1 THEN l[1]
    ELSE l[1] \o <<"&">> \o JoinAmp(Tail(l))

urlencode(query, doseq) ==
    JoinAmp(Flatten([i \in 1..Len(query) |-> ItemPairs(query[i][1], query[i][2], doseq)]))

\* Whether urlencode(query, doseq) raises: str(v) of a unicode value outside
\* ASCII does; with doseq such a value is encoded with "replace" instead.
urlencode_raises(query, doseq) ==
    \E i \in 1..Len(query) :
        /\ ~(doseq /\ query[i][2].kind = "unicode")
        /\ ~PyStr(query[i][2]).ok

\* ---------------------------------------------------------- parameter names
\* The parameter names the client knows, one character per fragment.
K_sources == <<"s", "o", "u", "r", "c", "e", "s">>
K_layers == <<"l", "a", "y", "e", "r", "s">>
K_boundary_country == <<"b", "o", "u", "n", "d", "a", "r", "y", "_", "c", "o", "u", "n", "t", "r", "y">>
K_text == <<"t", "e", "x", "t">>
K_focus_point_lat == <<"f", "o", "c", "u", "s", "_", "p", "o", "i", "n", "t", "_", "l", "a", "t">>
K_focus_point_lon == <<"f", "o", "c", "u", "s", "_", "p", "o", "i", "n", "t", "_", "l", "o", "n">>
K_size == <<"s", "i", "z", "e">>
K_boundary_rect_min_lat == <<"b", "o", "u", "n", "d", "a", "r", "y", "_", "r", "e", "c", "t", "_", "m", "i", "n", "_", "l", "a", "t">>
K_boundary_rect_min_lon == <<"b", "o", "u", "n", "d", "a", "r", "y", "_", "r", "e", "c", "t", "_", "m", "i", "n", "_", "l", "o", "n">>
K_boundary_rect_max_lat == <<"b", "o", "u", "n", "d", "a", "r", "y", "_", "r", "e", "c", "t", "_", "m", "a", "x", "_", "l", "a", "t">>
K_boundary_rect_max_lon == <<"b", "o", "u", "n", "d", "a", "r", "y", "_", "r", "e", "c", "t", "_", "m", "a", "x", "_", "l", "o", "n">>
K_boundary_circle_lat == <<"b", "o", "u", "n", "d", "a", "r", "y", "_", "c", "i", "r", "c", "l", "e", "_", "l", "a", "t">>
K_boundary_circle_lon == <<"b", "o", "u", "n", "d", "a", "r", "y", "_", "c", "i", "r", "c", "l", "e", "_", "l", "o", "n">>
K_boundary_circle_radius == <<"b", "o", "u", "n", "d", "a", "r", "y", "_", "c", "i", "r", "c", "l", "e", "_", "r", "a", "d", "i", "u", "s">>
K_point_lat == <<"p", "o", "i", "n", "t", "_", "l", "a", "t">>
K_point_lon == <<"p", "o", "i", "n", "t", "_", "l", "o", "n">>
K_json == <<"j", "s", "o", "n">>
K_address == <<"a", "d", "d", "r", "e", "s", "s">>
K_format == <<"f", "o", "r", "m", "a", "t">>
K_api_key == <<"a", "p", "i", "_", "k", "e", "y">>

\* ------------------------------------------------------------------- JSON
\* A JSON value, as json.dumps reads it and json.loads builds it: t is its
\* type, v a text (str), a number literal (num), a sequence of values (arr)
\* or a mapping from member name to value (obj).
JStr(s) == [t |-> "str", v |-> s]
JNum(lit) == [t |-> "num", v |-> lit]
JArr(vs) == [t |-> "arr", v |-> vs]
JObj(f) == [t |-> "obj", v |-> f]
JNull == [t |-> "null", v |-> <<>>]

\* The fragments that are number literals.
NumberLiterals == {"0", "0.0", "10.0", "20.0", "11.0", "21.0"}

\* The JSON value json.dumps writes for a Python scalar.
ToJson(v) ==
    CASE v.kind = "none" -> JNull
      [] v.kind = "num" -> JNum(v.val[1])
      [] OTHER -> JStr(v.val)

RECURSIVE JoinComma(_)
\* ', '.join(parts): json.dumps' default item separator.
JoinComma(parts) ==
    IF parts = <<>> THEN <<>>
    ELSE IF Len(parts) = 1 THEN parts[1]
    ELSE parts[1] \o <<",", " ">> \o JoinComma(Tail(parts))

RECURSIVE JsonDumps(_, _)
\* json.dumps(j).  A dict is written in its iteration order, which Python 2
\* leaves to the hash table: ord[S] is the order of a dict with key set S.
JsonDumps(j, ord) ==
    CASE j.t = "str" -> <<"\"">> \o j.v \o <<"\"">>
      [] j.t = "num" -> <<j.v>>
      [] j.t = "null" -> <<"null">>
      [] j.t = "arr" ->
           <<"[">> \o JoinComma([i \in 1..Len(j.v) |-> JsonDumps(j.v[i], ord)]) \o <<"]">>
      [] OTHER ->
           LET ks == ord[DOMAIN j.v]
               member(i) == <<"\"", ks[i], "\"", ":", " ">> \o JsonDumps(j.v[ks[i]], ord)
           IN  <<"{">> \o JoinComma([i \in 1..Len(ks) |-> member(i)]) \o <<"}">>

\* json.loads(text): a recursive-descent reader.  A read returns ok, the value
\* and the position after it; ok is FALSE where json.loads raises ValueError.
JsonFail == [ok |-> FALSE, val |-> JNull, next |-> 0]

RECURSIVE SkipSpace(_, _)
\* The first position from i on that holds no blank.
SkipSpace(text, i) ==
    IF i <= Len(text) /\ text[i] = " " THEN SkipSpace(text, i + 1) ELSE i

RECURSIVE ClosingQuote(_, _)
\* The position of the first double quote from i on, 0 if there is none.
ClosingQuote(text, i) ==
    IF i > Len(text) THEN 0
    ELSE IF text[i] = "\"" THEN i
    ELSE ClosingQuote(text, i + 1)

RECURSIVE JsonValue(_, _)
RECURSIVE JsonItems(_, _, _)
RECURSIVE JsonMembers(_, _, _)

\* The value that starts at position i.
JsonValue(text, i) ==
    LET p == SkipSpace(text, i) IN
    IF p > Len(text) THEN JsonFail
    ELSE IF text[p] = "\"" THEN
        LET q == ClosingQuote(text, p + 1) IN
        IF q = 0 THEN JsonFail
        ELSE [ok |-> TRUE, val |-> JStr(SubSeq(text, p + 1, q - 1)), next |-> q + 1]
    ELSE IF text[p] = "null" THEN [ok |-> TRUE, val |-> JNull, next |-> p + 1]
    ELSE IF text[p] \in NumberLiterals THEN
        [ok |-> TRUE, val |-> JNum(text[p]), next |-> p + 1]
    ELSE IF text[p] = "[" THEN
        LET q == SkipSpace(text, p + 1) IN
        IF q <= Len(text) /\ text[q] = "]"
        THEN [ok |-> TRUE, val |-> JArr(<<>>), next |-> q + 1]
        ELSE JsonItems(text, p + 1, <<>>)
    ELSE IF text[p] = "{" THEN
        LET q == SkipSpace(text, p + 1) IN
        IF q <= Len(text) /\ text[q] = "}"
        THEN [ok |-> TRUE, val |-> JObj(<<>>), next |-> q + 1]
        ELSE JsonMembers(text, p + 1, <<>>)
    ELSE JsonFail

\* The rest of an array whose items so far are acc: a value, then , or ].
JsonItems(text, i, acc) ==
    LET r == JsonValue(text, i)
        q == SkipSpace(text, r.next)
    IN  IF ~r.ok \/ q > Len(text) THEN JsonFail
        ELSE IF text[q] = "," THEN JsonItems(text, q + 1, Append(acc, r.val))
        ELSE IF text[q] = "]"
        THEN [ok |-> TRUE, val |-> JArr(Append(acc, r.val)), next |-> q + 1]
        ELSE JsonFail

\* The rest of an object whose members so far are acc: "name": value, then
\* , or }.  A repeated name keeps its last value.
JsonMembers(text, i, acc) ==
    LET k == JsonValue(text, i)
        c == SkipSpace(text, k.next)
    IN  IF ~k.ok \/ k.val.t # "str" \/ Len(k.val.v) # 1 THEN JsonFail
        ELSE IF c > Len(text) \/ text[c] # ":" THEN JsonFail
        ELSE LET r == JsonValue(text, c + 1)
                 q == SkipSpace(text, r.next)
                 name == k.val.v[1]
                 more == [n \in DOMAIN acc \cup {name} |->
                             IF n = name THEN r.val ELSE acc[n]]
             IN  IF ~r.ok \/ q > Len(text) THEN JsonFail
                 ELSE IF text[q] = "," THEN JsonMembers(text, q + 1, more)
                 ELSE IF text[q] = "}"
                 THEN [ok |-> TRUE, val |-> JObj(more), next |-> q + 1]
                 ELSE JsonFail

\* json.loads(text): the one value the whole text holds.
JsonLoads(text) ==
    LET r == JsonValue(text, 1) IN
    IF r.ok /\ SkipSpace(text, r.next) = Len(text) + 1
    THEN [ok |-> TRUE, val |-> r.val]
    ELSE [ok |-> FALSE, val |-> JNull]

\* ------------------------------------------------------------ the client
VARIABLES
    SEARCH_BASE_URL,      \* base URL of search, autocomplete and reverse
    LIBPOSTAL_BASE_URL,   \* base URL of parse and expand
    ROUTE_API_BASE_URL,   \* base URL of route
    api_key,              \* the configured API key, a Python value
    version,              \* the version segment of a versioned endpoint
    x_cache,              \* the X-Cache preference, "HIT" or "MISS"
    last,                 \* the most recent call of a method and how it ended
    constructed,          \* history: the arguments the constructor was given
    configured_key,       \* history: the constructor's key, or the argument of
                          \* the latest use_api_key call that returned
    cache_call            \* history: the latest of use_hit_cache ("hit") and
                          \* use_miss_cache ("miss"), "none" before either

config == <<SEARCH_BASE_URL, LIBPOSTAL_BASE_URL, ROUTE_API_BASE_URL, api_key, version,
            x_cache>>
history == <<constructed, configured_key, cache_call>>
vars == <<config, last, history>>

DEFAULT_VERSION == <<"v1">>

\* `k in allowed_params`: membership in a tuple of names, but a substring
\* test when allowed_params is a str.
TupleOf(names) == [isstr |-> FALSE, items |-> names]
StrOf(chars) == [isstr |-> TRUE, items |-> chars]
In(k, allowed) ==
    IF allowed.isstr
    THEN \E i \in 0..(Len(allowed.items) - Len(k)) :
             SubSeq(allowed.items, i + 1, i + Len(k)) = k
    ELSE \E i \in 1..Len(allowed.items) : allowed.items[i] = k

\* a + b of two tuples.
PlusTuple(a, b) == TupleOf(a.items \o b.items)

BASE_PARAMS == TupleOf(<<K_sources, K_layers, K_boundary_country>>)
AUTOCOMPLETE_API_BASEURL == SEARCH_BASE_URL
AUTOCOMPLETE_API_ENDPOINT == <<"autocomplete">>
AUTOCOMPLETE_API_PARAMS ==
    PlusTuple(BASE_PARAMS, TupleOf(<<K_text, K_focus_point_lat, K_focus_point_lon>>))
SEARCH_API_BASEURL == SEARCH_BASE_URL
SEARCH_API_ENDPOINT == <<"search">>
SEARCH_API_PARAMS ==
    PlusTuple(AUTOCOMPLETE_API_PARAMS,
              TupleOf(<<K_size, K_boundary_rect_min_lat, K_boundary_rect_min_lon,
                        K_boundary_rect_max_lat, K_boundary_rect_max_lon,
                        K_boundary_circle_lat, K_boundary_circle_lon,
                        K_boundary_circle_radius>>))
REVERSE_API_BASEURL == SEARCH_BASE_URL
REVERSE_API_ENDPOINT == <<"reverse">>
REVERSE_API_PARAMS == PlusTuple(BASE_PARAMS, TupleOf(<<K_size, K_point_lat, K_point_lon>>))
ROUTE_API_ENDPOINT == <<"route">>
ROUTE_API_PARAMS == TupleOf(<<K_json>>)
PARSE_API_BASEURL == LIBPOSTAL_BASE_URL
PARSE_API_ENDPOINT == <<"parse">>
PARSE_API_PARAMS == TupleOf(<<K_address, K_format>>)
\* EXPAND_API_BASEURL as it would be if set from the search base URL.
EXPAND_API_BASEURL_search == SEARCH_BASE_URL
EXPAND_API_BASEURL == LIBPOSTAL_BASE_URL
EXPAND_API_ENDPOINT == <<"expand">>
\* ('address') is the str 'address', not a tuple of one name.
EXPAND_API_PARAMS == StrOf(K_address)

\* The operations that issue a request, and the setters.
Operations == {"search", "autocomplete", "reverse", "route", "parse", "expand"}

\* What urlopen answers: a 2xx response with a body ("ok"), an HTTPError with
\* a status ("http"), or a failure to connect, URLError ("urlerror").
HttpOk(body) == [kind |-> "ok", status |-> 200, body |-> body]
HttpError(status) == [kind |-> "http", status |-> status, body |-> <<>>]
Unreachable == [kind |-> "urlerror", status |-> -1, body |-> <<>>]
NoResponse == [kind |-> "", status |-> -1, body |-> <<>>]

\* A call record: the call (method, required arguments, keyword options),
\* how it ended ("return" or "raise"), the exception class and the
\* status_code it carries (-1: none), the value returned, the request handed
\* to urlopen, if one was (sent), and what urlopen answered.
Call(op, required, kwargs) == [op |-> op, required |-> required, kwargs |-> kwargs]
NoRequest ==
    [sent |-> FALSE, method |-> "", endpoint |-> <<>>, params |-> <<>>, headers |-> <<>>]
ReturnedNone == [t |-> "None", v |-> <<>>]
ReturnedSelf == [t |-> "self", v |-> <<>>]
Raise(call, exc, status, req, resp) ==
    [op |-> call.op, required |-> call.required, kwargs |-> call.kwargs,
     outcome |-> "raise", error |-> exc, status |-> status,
     result |-> ReturnedNone, request |-> req, response |-> resp]
Return(call, value, req, resp) ==
    [op |-> call.op, required |-> call.required, kwargs |-> call.kwargs,
     outcome |-> "return", error |-> "", status |-> -1,
     result |-> value, request |-> req, response |-> resp]

\* __init__(route_host, search_host, libpostal_host, api_key, version); a
\* host or version argument is None or a text, the key a Python value.
Construct(route_host, search_host, libpostal_host, key, ver) ==
    /\ SEARCH_BASE_URL =
           IF search_host # None THEN search_host.val ELSE <<"https://search.mapzen.com">>
    /\ api_key = key
    /\ version = IF Truthy(ver) THEN ver.val ELSE DEFAULT_VERSION
    /\ LIBPOSTAL_BASE_URL =
           IF libpostal_host # None THEN libpostal_host.val
           ELSE <<"https://libpostal.mapzen.com">>
    /\ ROUTE_API_BASE_URL =
           IF route_host # None THEN route_host.val ELSE <<"https://valhalla.mapzen.com">>
    /\ x_cache = "HIT"
    /\ last = Return(Call("__init__", <<>>, <<>>), ReturnedNone, NoRequest, NoResponse)
    /\ constructed = [route_host |-> route_host, search_host |-> search_host,
                      libpostal_host |-> libpostal_host, api_key |-> key, version |-> ver]
    /\ configured_key = key
    /\ cache_call = "none"

\* use_api_key(key): check_not_empty raises before the assignment.
use_api_key(key) ==
    /\ api_key' = IF Truthy(key) THEN key ELSE api_key
    /\ configured_key' = IF Truthy(key) THEN key ELSE configured_key
    /\ last' = IF Truthy(key) THEN Return(Call("use_api_key", <<key>>, <<>>), ReturnedSelf, NoRequest, NoResponse)
               ELSE Raise(Call("use_api_key", <<key>>, <<>>), "ValueError", -1, NoRequest, NoResponse)
    /\ UNCHANGED <<SEARCH_BASE_URL, LIBPOSTAL_BASE_URL, ROUTE_API_BASE_URL, version,
                   x_cache, cache_call, constructed>>

use_hit_cache ==
    /\ x_cache' = "HIT"
    /\ cache_call' = "hit"
    /\ last' = Return(Call("use_hit_cache", <<>>, <<>>), ReturnedSelf, NoRequest, NoResponse)
    /\ UNCHANGED <<SEARCH_BASE_URL, LIBPOSTAL_BASE_URL, ROUTE_API_BASE_URL, version,
                   api_key, configured_key, constructed>>

use_miss_cache ==
    /\ x_cache' = "MISS"
    /\ cache_call' = "miss"
    /\ last' = Return(Call("use_miss_cache", <<>>, <<>>), ReturnedSelf, NoRequest, NoResponse)
    /\ UNCHANGED <<SEARCH_BASE_URL, LIBPOSTAL_BASE_URL, ROUTE_API_BASE_URL, version,
                   api_key, configured_key, constructed>>

\* ------------------------------------------------------ the shared pipeline
\* check_not_empty(reference): the reference if it is true, else ValueError.
check_not_empty(reference) == Truthy(reference)

_prepare_endpoint(endpoint_baseurl, endpoint_type) ==
    endpoint_baseurl \o <<"/">> \o version \o <<"/">> \o endpoint_type

_prepare_endpoint_noversion(endpoint_baseurl, endpoint_type) ==
    endpoint_baseurl \o <<"/">> \o endpoint_type

\* k.replace('_', '.')
Dotted(k) == [i \in 1..Len(k) |-> IF k[i] = "_" THEN "." ELSE k[i]]

\* kwargs[k] = v
SetItem(kwargs, k, v) ==
    [x \in DOMAIN kwargs \cup {k} |-> IF x = k THEN v ELSE kwargs[x]]

\* _prepare_params(params, allowed_params): api_key first, then every allowed
\* key, dotted, with a unicode value encoded.  (Two keys with the same dotted
\* form would need a '.' in a keyword name; no caller here has one.)
_prepare_params(params, allowed_params) ==
    LET kept == {k \in DOMAIN params : In(k, allowed_params)}
        source(d) == CHOOSE k \in kept : Dotted(k) = d
        value(v) == IF v.kind = "unicode" THEN EncodeUtf8(v) ELSE v
    IN  [d \in {K_api_key} \cup {Dotted(k) : k \in kept} |->
            IF \E k \in kept : Dotted(k) = d THEN value(params[source(d)]) ELSE api_key]

\* The orders in which a dict with key set S may list its items.
Orders(S) ==
    {o \in [1..Cardinality(S) -> S] : \A i, j \in 1..Cardinality(S) : o[i] = o[j] => i = j}

\* params.items() in the order o.
Items(params, o) == [i \in 1..Len(o) |-> <<o[i], params[o[i]]>>]

\* QueryString as it would be had _prepare_request passed doseq=1.
QueryString_doseq(params, o) == urlencode(Items(params, o), TRUE)

\* The query string of _prepare_request when the dict lists its keys in the
\* order o: urlencode(params, quote_via=quote), doseq left at its default 0.
QueryString(params, o) == urlencode(Items(params, o), FALSE)

\* _prepare_request as it would be with the header fixed at the default HIT.
_prepare_request_hit(endpoint, params) ==
    [ok |-> ~urlencode_raises(Items(params, CHOOSE o \in Orders(DOMAIN params) : TRUE), FALSE),
     request |-> [sent |-> TRUE, method |-> "GET", endpoint |-> endpoint,
                  params |-> params, headers |-> ("X-Cache" :> "HIT")]]

\* _prepare_request(endpoint, params): Request(url) with no data, which
\* urlopen sends as a GET, and the X-Cache header.  ok is FALSE where
\* urlencode raises.
_prepare_request(endpoint, params) ==
    [ok |-> ~urlencode_raises(Items(params, CHOOSE o \in Orders(DOMAIN params) : TRUE), FALSE),
     request |-> [sent |-> TRUE, method |-> "GET", endpoint |-> endpoint,
                  params |-> params, headers |-> ("X-Cache" :> x_cache)]]

\* _raise_exceptions_for_status as it would be without its 429 branch.
_raise_exceptions_for_status_no429(status_code) ==
    IF 400 <= status_code /\ status_code < 500 THEN
        IF status_code = 403
        THEN [raised |-> TRUE, error |-> "MapzenKeyError", status |-> status_code]
        ELSE [raised |-> TRUE, error |-> "MapzenError", status |-> status_code]
    ELSE IF 500 <= status_code /\ status_code < 600
    THEN [raised |-> TRUE, error |-> "MapzenError", status |-> status_code]
    ELSE [raised |-> FALSE, error |-> "", status |-> -1]

\* _raise_exceptions_for_status(e): the exception raised for the status of an
\* HTTPError; raised is FALSE where the method returns without raising.
_raise_exceptions_for_status(status_code) ==
    IF 400 <= status_code /\ status_code < 500 THEN
        IF status_code = 403
        THEN [raised |-> TRUE, error |-> "MapzenKeyError", status |-> status_code]
        ELSE IF status_code = 429
        THEN [raised |-> TRUE, error |-> "MapzenRateLimitError", status |-> status_code]
        ELSE [raised |-> TRUE, error |-> "MapzenError", status |-> status_code]
    ELSE IF 500 <= status_code /\ status_code < 600
    THEN [raised |-> TRUE, error |-> "MapzenError", status |-> status_code]
    ELSE [raised |-> FALSE, error |-> "", status |-> -1]

\* _make_request(endpoint, params) when urlopen answers resp.  An exception
\* other than HTTPError is re-raised as it is (the bare `raise`).
_make_request(call, endpoint, params, resp) ==
    LET r == _prepare_request(endpoint, params) IN
    IF ~r.ok THEN Raise(call, "UnicodeEncodeError", -1, NoRequest, NoResponse)
    ELSE IF resp.kind = "urlerror" THEN Raise(call, "URLError", -1, r.request, resp)
    ELSE IF resp.kind = "http" THEN
        LET e == _raise_exceptions_for_status(resp.status) IN
        IF e.raised THEN Raise(call, e.error, e.status, r.request, resp)
        ELSE Return(call, ReturnedNone, r.request, resp)
    ELSE LET j == JsonLoads(resp.body) IN
         IF j.ok THEN Return(call, j.val, r.request, resp)
         ELSE Raise(call, "ValueError", -1, r.request, resp)

\* ------------------------------------------------------------ the operations
search(text, kwargs, resp) ==
    LET call == Call("search", <<text>>, kwargs) IN
    IF ~check_not_empty(text) THEN Raise(call, "ValueError", -1, NoRequest, NoResponse)
    ELSE _make_request(call,
                       _prepare_endpoint(SEARCH_API_BASEURL, SEARCH_API_ENDPOINT),
                       _prepare_params(SetItem(kwargs, K_text, text), SEARCH_API_PARAMS),
                       resp)

autocomplete(text, kwargs, resp) ==
    LET call == Call("autocomplete", <<text>>, kwargs) IN
    IF ~check_not_empty(text) THEN Raise(call, "ValueError", -1, NoRequest, NoResponse)
    ELSE _make_request(call,
                       _prepare_endpoint(AUTOCOMPLETE_API_BASEURL, AUTOCOMPLETE_API_ENDPOINT),
                       _prepare_params(SetItem(kwargs, K_text, text),
                                       AUTOCOMPLETE_API_PARAMS),
                       resp)

\* reverse(point_lat, point_lon, **kwargs): neither coordinate is checked.
reverse(point_lat, point_lon, kwargs, resp) ==
    _make_request(Call("reverse", <<point_lat, point_lon>>, kwargs),
                  _prepare_endpoint(REVERSE_API_BASEURL, REVERSE_API_ENDPOINT),
                  _prepare_params(SetItem(SetItem(kwargs, K_point_lat, point_lat),
                                          K_point_lon, point_lon),
                                  REVERSE_API_PARAMS),
                  resp)

parse(address, kwargs, resp) ==
    LET call == Call("parse", <<address>>, kwargs) IN
    IF ~check_not_empty(address) THEN Raise(call, "ValueError", -1, NoRequest, NoResponse)
    ELSE _make_request(call,
                       _prepare_endpoint_noversion(PARSE_API_BASEURL, PARSE_API_ENDPOINT),
                       _prepare_params(SetItem(kwargs, K_address, address),
                                       PARSE_API_PARAMS),
                       resp)

expand(address, kwargs, resp) ==
    LET call == Call("expand", <<address>>, kwargs) IN
    IF ~check_not_empty(address) THEN Raise(call, "ValueError", -1, NoRequest, NoResponse)
    ELSE _make_request(call,
                       _prepare_endpoint_noversion(EXPAND_API_BASEURL, EXPAND_API_ENDPOINT),
                       _prepare_params(SetItem(kwargs, K_address, address),
                                       EXPAND_API_PARAMS),
                       resp)

\* Location as it would be with the two components of the point exchanged.
Location_swapped(point) ==
    JObj([k \in {"lat", "lon", "type"} |->
             CASE k = "lat" -> ToJson(point[2])
               [] k = "lon" -> ToJson(point[1])
               [] OTHER -> JStr(<<"break">>)])

\* The dict route() builds for one point, a tuple of Python values.
Location(point) ==
    JObj([k \in {"lat", "lon", "type"} |->
             CASE k = "lat" -> ToJson(point[1])
               [] k = "lon" -> ToJson(point[2])
               [] OTHER -> JStr(<<"break">>)])

\* The dict route() hands to json.dumps.
RouteData(a, b) ==
    JObj([k \in {"locations", "costing"} |->
             IF k = "locations" THEN JArr(<<Location(a), Location(b)>>)
             ELSE JStr(<<"auto_shorter">>)])

\* route(a, b, **kwargs): point[0] or point[1] of a tuple that short raises
\* IndexError; kwargs goes to _make_request as it is, with json added.
route(a, b, kwargs, resp, ord) ==
    LET call == Call("route", <<a, b>>, kwargs) IN
    IF Len(a) < 2 \/ Len(b) < 2 THEN Raise(call, "IndexError", -1, NoRequest, NoResponse)
    ELSE _make_request(call,
                       _prepare_endpoint_noversion(ROUTE_API_BASE_URL, ROUTE_API_ENDPOINT),
                       SetItem(kwargs, K_json, Str_(JsonDumps(RouteData(a, b), ord))),
                       resp)

\* ------------------------------------------------------------------ inputs
\* Keyword names a caller may pass that no whitelist names: a piece of the
\* word 'address', and a name no operation knows.
K_dress == <<"d", "r", "e", "s", "s">>
K_callback == <<"c", "a", "l", "l", "b", "a", "c", "k">>

\* The kwargs dicts of at most n keys, each key k with a value of choices[k].
Kwargs(choices, n) ==
    UNION {{f \in [D -> UNION {choices[k] : k \in D}] : \A k \in D : f[k] \in choices[k]} :
               D \in {X \in SUBSET DOMAIN choices : Cardinality(X) <= n}}

\* A list of the first n source names.
SourceNames == <<(<<"osm">>), (<<"oa">>), (<<"wof">>), (<<"gn">>)>>
Sources(n) == List_(SubSeq(SourceNames, 1, n))

\* Required text inputs: missing, empty, with characters that need quoting,
\* and unicode outside ASCII.
Texts == {None, Str_(<<>>), Str_(<<"a", "&", "b">>), Unicode_(<<"e'">>)}
OneText == {Str_(<<"a", "&", "b">>)}
TwoTexts == {Str_(<<>>), Str_(<<"a", "&", "b">>)}

\* Options of the geocoding operations: a whitelisted name with an
\* underscore, a whitelisted name with a sequence value, and two names no
\* whitelist holds.  Options of route: a name no whitelist holds, with a
\* str and with a unicode value outside ASCII.  An api_key of the caller's.
GeoOptions ==
    Kwargs((K_boundary_country :> {Str_(<<"u", "s">>)})
           @@ (K_sources :> {Sources(n) : n \in 1..MaxSeqLen})
           @@ (K_dress :> {Str_(<<"x">>)})
           @@ (K_api_key :> {Str_(<<"evil">>)}),
           MaxOptions)
RouteOptions ==
    Kwargs((K_callback :> {Str_(<<"x">>), Unicode_(<<"e'">>)}), MaxOptions)
KeyOptions == Kwargs((K_api_key :> {Str_(<<"evil">>)}), MaxOptions)
NoOptions == {<<>>}

Coordinates == {None, Num_("10.0")}
OneCoordinate == {Num_("10.0")}
PointA == <<Num_("10.0"), Num_("20.0")>>
PointB == <<Num_("11.0"), Num_("21.0")>>
Points == {<<>>, PointA, PointB}
OnePoint == {PointA}

\* Response bodies: a GeoJSON object, and text that is no JSON.
OkBody == <<"{", "\"", "type", "\"", ":", " ", "\"", "FeatureCollection", "\"", "}">>
BadBody == <<"<", "html", ">">>
Statuses == {304, 399, 400, 403, 404, 429, 499, 500, 503, 599, 600}
AllResponses ==
    {HttpOk(OkBody), HttpOk(BadBody), Unreachable} \cup {HttpError(s) : s \in Statuses}
FewResponses == {HttpOk(OkBody), HttpError(429)}
OkResponse == {HttpOk(OkBody)}

\* The iteration orders Python may give the two dicts of route().
DictOrders ==
    {({"locations", "costing"} :> top) @@ ({"lat", "lon", "type"} :> loc) :
         top \in Orders({"locations", "costing"}), loc \in Orders({"lat", "lon", "type"})}

ApiKeys == {Str_(<<>>), Str_(<<"key1">>), Str_(<<"key2">>)}
HostArgs(name) == {None, Str_(<<name>>)}
VersionArgs == {None, Str_(<<>>), Str_(<<"v2">>)}

\* ----------------------------------------------------------------- actions
Search(texts, options, responses) ==
    /\ \E text \in texts, kwargs \in options, resp \in responses :
           last' = search(text, kwargs, resp)
    /\ UNCHANGED <<config, history>>

Autocomplete(texts, options, responses) ==
    /\ \E text \in texts, kwargs \in options, resp \in responses :
           last' = autocomplete(text, kwargs, resp)
    /\ UNCHANGED <<config, history>>

Reverse(coordinates, options, responses) ==
    /\ \E lat \in coordinates, lon \in coordinates, kwargs \in options, resp \in responses :
           last' = reverse(lat, lon, kwargs, resp)
    /\ UNCHANGED <<config, history>>

Route(points, options, responses) ==
    /\ \E a \in points, b \in points, kwargs \in options, resp \in responses,
          ord \in DictOrders :
           last' = route(a, b, kwargs, resp, ord)
    /\ UNCHANGED <<config, history>>

Parse(texts, options, responses) ==
    /\ \E address \in texts, kwargs \in options, resp \in responses :
           last' = parse(address, kwargs, resp)
    /\ UNCHANGED <<config, history>>

Expand(texts, options, responses) ==
    /\ \E address \in texts, kwargs \in options, resp \in responses :
           last' = expand(address, kwargs, resp)
    /\ UNCHANGED <<config, history>>

UseApiKey == \E key \in ApiKeys : use_api_key(key)

UseHitCache == use_hit_cache

UseMissCache == use_miss_cache

\* ---------------------------------------------------------- specifications
\* The whole client: the setters and the six operations, called with and
\* without their required input and with an api_key option of the caller's.
Init ==
    \E key \in {None, Str_(<<"key1">>)} : Construct(None, None, None, key, None)

Next ==
    \/ Search(TwoTexts, KeyOptions, FewResponses)
    \/ Autocomplete(TwoTexts, KeyOptions, FewResponses)
    \/ Reverse(OneCoordinate, KeyOptions, FewResponses)
    \/ Route(OnePoint, KeyOptions, FewResponses)
    \/ Parse(TwoTexts, KeyOptions, FewResponses)
    \/ Expand(TwoTexts, KeyOptions, FewResponses)
    \/ UseApiKey
    \/ UseHitCache
    \/ UseMissCache

Spec == Init /\ [][Next]_vars

\* A client constructed with a key and nothing else.
InitKeyed == Construct(None, None, None, Str_(<<"key1">>), None)

\* Request construction: the operations of a freshly constructed client,
\* called with every kind of required input and option.
NextRequests ==
    \/ Search(Texts, GeoOptions, OkResponse)
    \/ Autocomplete(Texts, GeoOptions, OkResponse)
    \/ Reverse(Coordinates, GeoOptions, OkResponse)
    \/ Route(Points, RouteOptions, OkResponse)
    \/ Parse(Texts, GeoOptions, OkResponse)
    \/ Expand(Texts, GeoOptions, OkResponse)

SpecRequests == InitKeyed /\ [][NextRequests]_vars

\* Response handling: one well-formed call of each operation, every answer
\* of the transport.
NextStatus ==
    \/ Search(OneText, NoOptions, AllResponses)
    \/ Autocomplete(OneText, NoOptions, AllResponses)
    \/ Reverse(OneCoordinate, NoOptions, AllResponses)
    \/ Route(OnePoint, RouteOptions, AllResponses)
    \/ Parse(OneText, NoOptions, AllResponses)
    \/ Expand(OneText, NoOptions, AllResponses)

SpecStatus == InitKeyed /\ [][NextStatus]_vars

\* Endpoints: a client constructed with every combination of host overrides
\* and version arguments.
InitHosts ==
    \E route_host \in HostArgs("http://route.test"),
       search_host \in HostArgs("http://search.test"),
       libpostal_host \in HostArgs("http://libpostal.test"),
       ver \in VersionArgs :
        Construct(route_host, search_host, libpostal_host, Str_(<<"key1">>), ver)

NextEndpoint ==
    \/ Search(OneText, NoOptions, OkResponse)
    \/ Autocomplete(OneText, NoOptions, OkResponse)
    \/ Reverse(OneCoordinate, NoOptions, OkResponse)
    \/ Route(OnePoint, NoOptions, OkResponse)
    \/ Parse(OneText, NoOptions, OkResponse)
    \/ Expand(OneText, NoOptions, OkResponse)

SpecEndpoint == InitHosts /\ [][NextEndpoint]_vars

\* ---------------------------------------------------------------- decoding
\* What the receiver of a request does with its query string: split at &,
\* split each piece at its first =, undo the percent-encoding.
Unquote(s) ==
    [i \in 1..Len(s) |->
        IF \E c \in DOMAIN PercentCode : PercentCode[c] = s[i]
        THEN CHOOSE c \in DOMAIN PercentCode : PercentCode[c] = s[i]
        ELSE s[i]]

RECURSIVE IndexOf(_, _, _)
\* The first position from i on at which s holds sep, 0 if none does.
IndexOf(s, sep, i) ==
    IF i > Len(s) THEN 0 ELSE IF s[i] = sep THEN i ELSE IndexOf(s, sep, i + 1)

RECURSIVE Split(_, _)
\* s.split(sep)
Split(s, sep) ==
    LET p == IndexOf(s, sep, 1) IN
    IF p = 0 THEN <<s>>
    ELSE <<SubSeq(s, 1, p - 1)>> \o Split(SubSeq(s, p + 1, Len(s)), sep)

\* The <<name, value>> pairs of a query string, in its order.
ParseQs(q) ==
    LET pieces == IF q = <<>> THEN <<>> ELSE Split(q, "&")
        pair(piece) ==
            LET p == IndexOf(piece, "=", 1) IN
            IF p = 0 THEN <<Unquote(piece), <<>>>>
            ELSE <<Unquote(SubSeq(piece, 1, p - 1)),
                   Unquote(SubSeq(piece, p + 1, Len(piece)))>>
    IN  [i \in 1..Len(pieces) |-> pair(pieces[i])]

\* The values a query string gives the name k, in its order.
ValuesOf(q, k) ==
    LET pairs == SelectSeq(ParseQs(q), LAMBDA p : p[1] = k)
    IN  [i \in 1..Len(pairs) |-> pairs[i][2]]

\* The query strings the request of the latest call may carry, one for each
\* order in which the dict may list its items.
QueryStrings == {QueryString(last.request.params, o) : o \in Orders(DOMAIN last.request.params)}

\* The latest call is an operation / is one whose request went to urlopen.
IsOperation == last.op \in Operations
IsRequest == IsOperation /\ last.request.sent

\* ------------------------------------------------------------------ claims
\* The names an operation's whitelist holds, read as the tuple of names it
\* is meant to be, and the names the operation adds to the caller's options.
Names(allowed) ==
    IF allowed.isstr THEN {allowed.items}
    ELSE {allowed.items[i] : i \in 1..Len(allowed.items)}
WhitelistNames(op) ==
    CASE op = "search" -> Names(SEARCH_API_PARAMS)
      [] op = "autocomplete" -> Names(AUTOCOMPLETE_API_PARAMS)
      [] op = "reverse" -> Names(REVERSE_API_PARAMS)
      [] op = "route" -> Names(ROUTE_API_PARAMS)
      [] op = "parse" -> Names(PARSE_API_PARAMS)
      [] OTHER -> Names(EXPAND_API_PARAMS)
InjectedNames(op) ==
    CASE op \in {"search", "autocomplete"} -> {K_text}
      [] op = "reverse" -> {K_point_lat, K_point_lon}
      [] op = "route" -> {K_json}
      [] OTHER -> {K_address}

\* The latest call was given an empty or missing required input: an empty
\* tuple for a route point, else a value that is None or empty.
HasEmptyRequired ==
    IF last.op = "route"
    THEN \E i \in 1..Len(last.required) : Len(last.required[i]) = 0
    ELSE \E i \in 1..Len(last.required) : ~Truthy(last.required[i])

\* C1: an operation called with an empty or missing required input ends in a
\* validation error (ValueError), and no request has gone to the transport.
C1_EmptyInputIsRejected ==
    IsOperation /\ HasEmptyRequired =>
        /\ last.outcome = "raise"
        /\ last.error = "ValueError"
        /\ ~last.request.sent

\* C2: the parameters of the request of any operation are exactly the
\* caller's options and the injected required inputs whose names the
\* operation's whitelist holds, dotted, plus api_key.
C2_ExactlyTheWhitelisted ==
    IsRequest =>
        DOMAIN last.request.params =
            {K_api_key} \cup
            {Dotted(k) : k \in (DOMAIN last.kwargs \cup InjectedNames(last.op))
                                   \cap WhitelistNames(last.op)}

\* C3: the request of any operation carries the parameter api_key, and its
\* value is the configured key: the constructor's, or the argument of the
\* latest use_api_key call that returned.
C3_RequestCarriesConfiguredKey ==
    IsRequest =>
        /\ K_api_key \in DOMAIN last.request.params
        /\ last.request.params[K_api_key] = configured_key

\* The cache preference the setter calls so far ask for.
CachePreference == IF cache_call = "miss" THEN "MISS" ELSE "HIT"

\* C4: the request of an operation carries exactly one header, X-Cache, with
\* the value the latest of use_hit_cache and use_miss_cache asks for (HIT if
\* neither was called); and the preference is that value after every call,
\* an operation that returned or raised included.
C4_CacheHeaderFollowsLatestSetter ==
    /\ x_cache = CachePreference
    /\ IsRequest =>
           /\ DOMAIN last.request.headers = {"X-Cache"}
           /\ last.request.headers["X-Cache"] = CachePreference

\* C4's case: an operation that failed after use_miss_cache sent MISS.
C4_Witness ==
    /\ IsRequest
    /\ cache_call = "miss"
    /\ last.outcome = "raise"
    /\ last.request.headers["X-Cache"] = "MISS"

\* The error kind the claim gives a status in 400..599.
ErrorKindOf(s) ==
    IF s = 403 THEN "MapzenKeyError"
    ELSE IF s = 429 THEN "MapzenRateLimitError"
    ELSE "MapzenError"

\* C5: an operation answered by an HTTP error of status s in 400..599 raises
\* the key error for 403, the rate-limit error for 429 and the generic error
\* for every other s, and the error carries status code s.
C5_StatusDecidesErrorKind ==
    IsOperation /\ last.response.kind = "http"
        /\ 400 <= last.response.status /\ last.response.status <= 599 =>
        /\ last.outcome = "raise"
        /\ last.error = ErrorKindOf(last.response.status)
        /\ last.status = last.response.status

\* C5's case: a 429 answer raised the rate-limit error with status 429.
C5_Witness ==
    /\ IsOperation
    /\ last.response.kind = "http"
    /\ last.response.status = 429
    /\ last.error = "MapzenRateLimitError"
    /\ last.status = 429

\* Request execution failed with something other than an HTTP error status:
\* no connection, a body that is no JSON, a value that cannot be encoded.
ExecutionFailed ==
    \/ last.response.kind = "urlerror"
    \/ last.response.kind = "ok" /\ ~JsonLoads(last.response.body).ok
    \/ last.error = "UnicodeEncodeError"

\* C6: when request execution fails with anything other than an HTTP error
\* status, the operation raises the generic MapzenError.
C6_OtherFailuresAreWrapped ==
    IsOperation /\ ExecutionFailed =>
        /\ last.outcome = "raise"
        /\ last.error = "MapzenError"

\* j is the location object of the point: lat its first component, lon its
\* second, type "break".
IsLocation(j, point) ==
    /\ j.t = "obj"
    /\ DOMAIN j.v = {"lat", "lon", "type"}
    /\ j.v["lat"].t = "num" /\ j.v["lat"].v = point[1].val[1]
    /\ j.v["lon"].t = "num" /\ j.v["lon"].v = point[2].val[1]
    /\ j.v["type"].t = "str" /\ j.v["type"].v = <<"break">>

\* j is the routing payload of the points a and b, in that order.
IsRoutePayload(j, a, b) ==
    /\ j.t = "obj"
    /\ DOMAIN j.v = {"locations", "costing"}
    /\ j.v["costing"].t = "str" /\ j.v["costing"].v = <<"auto_shorter">>
    /\ j.v["locations"].t = "arr"
    /\ Len(j.v["locations"].v) = 2
    /\ IsLocation(j.v["locations"].v[1], a)
    /\ IsLocation(j.v["locations"].v[2], b)

\* The latest call is a route() whose request went out.
IsRouteRequest == last.op = "route" /\ last.request.sent

\* Whatever order the dicts are listed in, the query string has one json
\* parameter, it deserializes to the payload of the two points, and it is the
\* only parameter when the caller passed no option.
RoutePayloadSent ==
    \A q \in QueryStrings :
        LET js == ValuesOf(q, K_json) IN
        /\ Len(js) = 1
        /\ JsonLoads(js[1]).ok
        /\ IsRoutePayload(JsonLoads(js[1]).val, last.required[1], last.required[2])
        /\ DOMAIN last.kwargs = {} => Len(ParseQs(q)) = 1

BaseOf(host, default) == IF host = None THEN <<default>> ELSE host.val
VersionOf(ver) == IF ver = None \/ ver.val = <<>> THEN <<"v1">> ELSE ver.val
ExpectedEndpoint(op) ==
    CASE op \in {"search", "autocomplete", "reverse"} ->
           BaseOf(constructed.search_host, "https://search.mapzen.com")
           \o <<"/">> \o VersionOf(constructed.version) \o <<"/", op>>
      [] op = "route" ->
           BaseOf(constructed.route_host, "https://valhalla.mapzen.com") \o <<"/", op>>
      [] OTHER ->
           BaseOf(constructed.libpostal_host, "https://libpostal.mapzen.com") \o <<"/", op>>

\* C8: search, autocomplete and reverse request {searchBase}/{version}/{op},
\* the version v1 when the constructor got none or an empty one; route
\* requests {routeBase}/route, parse and expand {libpostalBase}/{op}; each
\* base is the host override of the operation's own service, or its default.
C8_EndpointOfOwnService ==
    IsRequest => last.request.endpoint = ExpectedEndpoint(last.op)

\* C8's case: expand on a client whose three hosts are all overridden.
C8_Witness ==
    /\ IsRequest
    /\ last.op = "expand"
    /\ constructed.search_host # None
    /\ constructed.route_host # None
    /\ last.request.endpoint = <<"http://libpostal.test", "/", "expand">>

\* The parameters of the latest request whose value is a sequence.
SequenceParams ==
    {k \in DOMAIN last.request.params : last.request.params[k].kind \in {"list", "tuple"}}

RECURSIVE ListItemsText(_)
\* The text Python prints between the brackets of a list of str.
ListItemsText(es) ==
    IF es = <<>> THEN <<>>
    ELSE <<"'">> \o Head(es) \o <<"'">>
         \o (IF Len(es) = 1 THEN <<>> ELSE <<",", " ">> \o ListItemsText(Tail(es)))

\* C9, as stated: a parameter with a sequence value of n elements is n
\* key=value pairs of the query string, one per element, in the elements'
\* order, so that decoding the query string recovers the sequence.
C9_OnePairPerElement ==
    IsRequest =>
        \A k \in SequenceParams, q \in QueryStrings :
            ValuesOf(q, k) = last.request.params[k].elts

\* C9, amended: a parameter with a sequence value is one key=value pair of
\* the query string, whatever the number of elements, and its value decodes
\* to the text Python prints for the whole list, ['a', 'b'].
C9_OnePairPerSequence ==
    IsRequest =>
        \A k \in SequenceParams, q \in QueryStrings :
            ValuesOf(q, k) =
                <<(<<"[">> \o ListItemsText(last.request.params[k].elts) \o <<"]">>)>>

\* C9's case: search sent a request with a sources list of two elements.
C9_Witness ==
    /\ IsRequest
    /\ last.op = "search"
    /\ K_sources \in SequenceParams
    /\ Len(last.request.params[K_sources].elts) = 2

\* C10: an operation either returns the parsed JSON body of a successful
\* response or raises; answered by an HTTP error, whatever its status, it
\* raises.
C10_ReturnsOnlyParsedBody ==
    IsOperation =>
        /\ last.outcome \in {"return", "raise"}
        /\ last.response.kind = "http" => last.outcome = "raise"
        /\ last.outcome = "return" =>
               /\ last.response.kind = "ok"
               /\ JsonLoads(last.response.body).ok
               /\ last.result = JsonLoads(last.response.body).val

====
